---- MODULE Spec2Model ----
(***************************************************************************)
(* Fallback resolution engine of kortekstream: the endpoint registry       *)
(* (streamapp/models.py), the monitor table, the shared Django cache and   *)
(* the process-wide FallbackAPIClient (streamapp/api_client.py).           *)
(***************************************************************************)
EXTENDS Integers, Sequences, FiniteSets, TLC

(***************************************************************************)
(* Bounds                                                                  *)
(***************************************************************************)
MaxEndpoints == 2      \* rows ever created in the APIEndpoint table
MaxCalls == 2          \* top-level get/post calls ever started
NumCallers == 2        \* threads that share the api_client singleton
MaxAge == 3            \* elapsed seconds told apart; MaxAge stands for "or more"

EndpointIds == 1..MaxEndpoints
Callers == 1..NumCallers
SeqCallers == {1}
Urls == {"u1", "u2", "default"}
Priorities == {50, 100}
Paths == {"home"}

(***************************************************************************)
(* Program constants                                                       *)
(***************************************************************************)
connect_timeout == 3
ErrorLogKept == 9       \* entries kept before a new one is put at the end
MaxBackoff == 300
DefaultUrl == "default"

(***************************************************************************)
(* Upstream answers.  A dispatch ends in a timeout, a connection error or  *)
(* an HTTP response with a status and a body; the body is unparsable or a  *)
(* JSON value.  Confidence is kept in hundredths; fields counts the members *)
(* other than confidence_score and data; marker tells whether the body has *)
(* the member "status": "ok".                                              *)
(***************************************************************************)
JNull == [shape |-> "null", conf |-> -1, data |-> "absent", fields |-> 0, marker |-> FALSE]
JDataEmpty == [shape |-> "object", conf |-> -1, data |-> "empty", fields |-> 0, marker |-> FALSE]
JWrapped(c) == [shape |-> "object", conf |-> c, data |-> "full", fields |-> 0, marker |-> FALSE]
Unparsable == [shape |-> "unparsable", conf |-> -1, data |-> "absent", fields |-> 0, marker |-> FALSE]

\* {"x": 1}: a direct payload; {"status": "ok", "server_id": ...}: the answer
\* of the liveness path of a healthy upstream.
JDirect == [shape |-> "object", conf |-> -1, data |-> "absent", fields |-> 1, marker |-> FALSE]
JHealthOk == [shape |-> "object", conf |-> -1, data |-> "absent", fields |-> 2, marker |-> TRUE]

Bodies == {JNull, JDataEmpty, JWrapped(49), JWrapped(50)}

RTimeout == [kind |-> "timeout", status |-> 0, body |-> Unparsable]
RConnError == [kind |-> "connection", status |-> 0, body |-> Unparsable]
RHttp(s, b) == [kind |-> "http", status |-> s, body |-> b]

Responses ==
    {RTimeout, RConnError, RHttp(500, Unparsable), RHttp(200, Unparsable)}
        \cup {RHttp(200, b) : b \in Bodies}

\* An upstream that is either down or serves a full payload.
UpOrDown == {RConnError, RHttp(200, JWrapped(50))}

\* Answers a health check can get.
ProbeResponses ==
    {RTimeout, RConnError, RHttp(500, Unparsable), RHttp(200, Unparsable),
     RHttp(200, JDirect), RHttp(200, JHealthOk)}

\* One answer for each status a monitor write can carry.
StatusAnswers ==
    {RTimeout, RConnError, RHttp(500, Unparsable), RHttp(200, JWrapped(50))}

\* No answer received.
NoAnswer == [kind |-> "none", status |-> 0, body |-> Unparsable]

(***************************************************************************)
(* State                                                                   *)
(***************************************************************************)
VARIABLES
    apiEndpoints,       \* APIEndpoint table: id -> row
    nextId,             \* next primary key of the APIEndpoint table
    apiMonitors,        \* APIMonitor table: set of rows
    cache,              \* shared Django cache
    self_endpoints,     \* api_client.endpoints
    failed_endpoints,   \* api_client.failed_endpoints: url -> (age, count)
    current_api,        \* api_client.current_api
    callsStarted,       \* number of get/post calls started so far
    pc,                 \* position of each caller inside get/post
    path,               \* logical path of the call in flight
    activeAtStart,      \* ids that were active when the call read the registry
    cands,              \* the list the candidate loop iterates over
    idx,                \* loop cursor (1-based) into cands
    sent,               \* dispatches of the call in order: position and answer
    pending,            \* exception kind raised in the try block
    result,             \* outcome of the call
    probe,              \* health check in flight: the monitor it holds
    view,               \* page view: the payload it got and what it made of it
    sweep,              \* health sweep: its position and the probes that failed
    reader,             \* get_active_endpoints() in flight: the list it has read
    saver               \* APIEndpoint.save() in flight: row written, cache not yet cleared

vars == <<apiEndpoints, nextId, apiMonitors, cache, self_endpoints,
          failed_endpoints, current_api, callsStarted, pc, path, activeAtStart,
          cands, idx, sent, pending, result, probe, view, sweep, reader, saver>>

storeVars == <<apiEndpoints, nextId>>
clientVars == <<self_endpoints, failed_endpoints, current_api>>
callVars == <<callsStarted, pc, path, activeAtStart, cands, idx, sent, pending, result>>

(***************************************************************************)
(* Endpoint registry                                                       *)
(***************************************************************************)
NoRow == [exists |-> FALSE, name |-> "", url |-> "", source_domain |-> "",
          priority |-> 0, is_active |-> FALSE, last_used |-> FALSE, success_count |-> 0]

\* Name and source domain given to the row with primary key id.  The row
\* created first gets the name that sorts last.
EndpointName(id) == IF id = 1 THEN "b" ELSE "a"
EndpointDomain(id) == IF id = 1 THEN "d1" ELSE "d2"

\* APIEndpoint.objects.create(name, url, source_domain, priority): is_active
\* defaults to True, last_used to NULL, success_count to 0.
NewRow(id, u, p) ==
    [exists |-> TRUE, name |-> EndpointName(id), url |-> u,
     source_domain |-> EndpointDomain(id), priority |-> p, is_active |-> TRUE,
     last_used |-> FALSE, success_count |-> 0]

\* Marks an attribute the object does not have.
NoAttr == -1

\* An endpoint object as held in memory: a copy of the row read from the table.
EndpointObject(id) ==
    [id |-> id, url |-> apiEndpoints[id].url, name |-> apiEndpoints[id].name,
     priority |-> apiEndpoints[id].priority]

\* create_temp_endpoint: an object with url and name only (no id, no priority).
\* self.current_api as __init__ leaves it (last_used is not modelled).
\* error_log is a list of entries; of an entry the endpoint's name is kept
\* (timestamp, url, type and message are not modelled).
NewCurrentApi == [endpoint |-> [id |-> -1, url |-> "", name |-> "", priority |-> NoAttr],
                  success_count |-> 0, error_log |-> <<>>]

\* error_entry of the except clauses: "endpoint": api_endpoint.name
ErrorEntry(ep, kind) == [endpoint |-> ep.name]

\* s[-(n + 1):]
LastEntriesOffByOne(s, n) ==
    IF Len(s) <= n + 1 THEN s ELSE SubSeq(s, Len(s) - n, Len(s))

\* s[-n:]
LastEntries(s, n) == IF Len(s) <= n THEN s ELSE SubSeq(s, Len(s) - n + 1, Len(s))

TempEndpoint == [id |-> 0, url |-> DefaultUrl, name |-> "Default", priority |-> NoAttr]
NoEndpoint == [id |-> -1, url |-> "", name |-> "", priority |-> NoAttr]

ActiveIds == {i \in EndpointIds : apiEndpoints[i].exists /\ apiEndpoints[i].is_active}

\* filter(is_active=True).order_by('-priority'): rows of equal priority come
\* back in an order the database does not fix.
OrderedActive ==
    {s \in [1..Cardinality(ActiveIds) -> ActiveIds] :
        /\ \A i, j \in DOMAIN s : i # j => s[i] # s[j]
        /\ \A i, j \in DOMAIN s :
              i < j => apiEndpoints[s[i]].priority >= apiEndpoints[s[j]].priority}

\* A listing without the default for an empty result.
get_api_endpoints_no_default ==
    {[i \in DOMAIN s |-> EndpointObject(s[i])] : s \in OrderedActive}

\* get_api_endpoints when the table cannot be read (OperationalError).
get_api_endpoints_unavailable == {<<TempEndpoint>>}

get_api_endpoints ==
    IF ActiveIds = {}
    THEN {<<TempEndpoint>>}
    ELSE {[i \in DOMAIN s |-> EndpointObject(s[i])] : s \in OrderedActive}

(***************************************************************************)
(* Shared cache                                                            *)
(***************************************************************************)
CacheKeys == {"api_endpoints", "template_filter_source_domain"}
Absent == [set |-> FALSE, val |-> <<>>]
EmptyCache == [k \in CacheKeys |-> Absent]

\* APIEndpoint.save(): the two cache.delete calls after super().save().
SaveInvalidate(c) ==
    [c EXCEPT !["api_endpoints"] = Absent, !["template_filter_source_domain"] = Absent]

\* No get_active_endpoints() call is in flight.
NoReader == [phase |-> "idle", list |-> <<>>]

(***************************************************************************)
(* Monitor table                                                           *)
(***************************************************************************)
MonitorRow(pk, id, p, st, rt, em, rd) ==
    [pk |-> pk, endpoint |-> id, endpoint_path |-> p, status |-> st,
     response_time |-> rt, error_message |-> em, response_data |-> rd]

\* Primary key given to the next inserted monitor row.  The table never
\* gives a key twice (AutoField); keys are only compared, so the new key is
\* the least one that no row has and that no monitor object in memory holds.
NextMonitorPk(mons) ==
    LET used == {m.pk : m \in mons} \cup {probe.pk}
        free == (1..(Cardinality(used) + 1)) \ used IN
    CHOOSE k \in free : \A j \in free : k <= j

\* No health check in flight.
NoProbe == [active |-> FALSE, endpoint |-> 0, path |-> "", pk |-> 0, answer |-> NoAnswer]

MonitorsOf(id, p) == {m \in apiMonitors : m.endpoint = id /\ m.endpoint_path = p}

\* A recorder that does not tell the temporary object from a table row.
UpdateApiMonitorAnyObject(mons, ep, p, st, rt, em, rd) ==
    LET old == {m \in mons : m.endpoint = ep.id /\ m.endpoint_path = p} IN
    (mons \ old) \cup {MonitorRow(NextMonitorPk(mons), ep.id, p, st, rt, em, rd)}

\* A recorder that inserts a row for every outcome.
UpdateApiMonitorAppends(mons, ep, p, st, rt, em, rd) ==
    IF ep.id \notin EndpointIds THEN mons
    ELSE IF ~apiEndpoints[ep.id].exists THEN mons
    ELSE mons \cup {MonitorRow(NextMonitorPk(mons), ep.id, p, st, rt, em, rd)}

\* A recorder that leaves the latency and the snippet of a row it finds.
UpdateApiMonitorStatusOnly(mons, ep, p, st, rt, em, rd) ==
    IF ep.id \notin EndpointIds THEN mons
    ELSE IF ~apiEndpoints[ep.id].exists THEN mons
    ELSE LET old == {m \in mons : m.endpoint = ep.id /\ m.endpoint_path = p} IN
         IF old = {} THEN mons \cup {MonitorRow(NextMonitorPk(mons), ep.id, p, st, rt, em, rd)}
         ELSE IF Cardinality(old) > 1 THEN mons
         ELSE (mons \ old)
                  \cup {[m EXCEPT !.status = st, !.error_message = em] : m \in old}

\* _update_api_monitor: no-op for an object without id; get_or_create on
\* (endpoint, endpoint_path), then overwrite the four fields of the row
\* found.  A row of a deleted endpoint cannot be inserted (foreign key) and
\* get() fails on several rows; both errors are swallowed.
UpdateApiMonitor(mons, ep, p, st, rt, em, rd) ==
    IF ep.id \notin EndpointIds THEN mons
    ELSE IF ~apiEndpoints[ep.id].exists THEN mons
    ELSE LET old == {m \in mons : m.endpoint = ep.id /\ m.endpoint_path = p} IN
         IF old = {} THEN mons \cup {MonitorRow(NextMonitorPk(mons), ep.id, p, st, rt, em, rd)}
         ELSE IF Cardinality(old) > 1 THEN mons
         ELSE (mons \ old)
                  \cup {MonitorRow((CHOOSE m \in old : TRUE).pk, ep.id, p, st, rt, em, rd)}

(***************************************************************************)
(* Failure table of the client                                             *)
(***************************************************************************)
NotFailed == [present |-> FALSE, age |-> 0, count |-> 0]
EmptyFailed == [u \in Urls |-> NotFailed]

Min(a, b) == IF a < b THEN a ELSE b

\* A request that times out lasts at least the connect timeout.
Duration(r) == IF r.kind = "timeout" THEN connect_timeout ELSE 0

\* backoff_time = min(60 * 5, 2 ** failure_count)
BackoffTime(count) == Min(MaxBackoff, 2 ^ count)

\* time.time() - last_failure > backoff_time.  An age of MaxAge means
\* "MaxAge seconds or more", so against a longer backoff both answers occur.
ShouldRetry(entry) ==
    IF entry.age < MaxAge \/ BackoffTime(entry.count) < MaxAge
    THEN {entry.age > BackoffTime(entry.count)}
    ELSE {TRUE, FALSE}

\* Elapsed time: every recorded failure gets d seconds older.
Elapse(f, d) ==
    [u \in Urls |->
        IF f[u].present THEN [f[u] EXCEPT !.age = Min(@ + d, MaxAge)] ELSE f[u]]

\* _mark_endpoint_failed once the membership test has been made.
MarkFailedNew(f, u) == [f EXCEPT ![u] = [present |-> TRUE, age |-> 0, count |-> 1]]
MarkFailedAgain(f, u) == [f EXCEPT ![u] = [present |-> TRUE, age |-> 0, count |-> f[u].count + 1]]

(***************************************************************************)
(* _handle_response                                                        *)
(***************************************************************************)
\* raise_for_status() then response.json(); both failures end as Exception.
HandleResponseRaises(r) ==
    \/ r.status < 200
    \/ r.status >= 300
    \/ r.body.shape = "unparsable"

\* Which except clause of get/post handles the dispatch.
ExceptionKind(r) ==
    IF r.kind = "timeout" THEN "timeout"
    ELSE IF r.kind = "connection" THEN "connection"
    ELSE IF HandleResponseRaises(r) THEN "error"
    ELSE "none"

\* A handler that records every failure alike.
FailureStatusFlat(kind) == "error"

\* Monitor status written by the handler of each exception kind.
FailureStatus(kind) ==
    IF kind = "timeout" THEN "timeout"
    ELSE IF kind = "connection" THEN "down"
    ELSE "error"

\* Python truthiness of the parsed result (json.dumps(result)[:1000] if result else None).
Truthy(b) ==
    /\ b.shape = "object"
    /\ (b.conf >= 0 \/ b.data # "absent" \/ b.fields > 0)

(***************************************************************************)
(* Payloads as the page views see them                                     *)
(***************************************************************************)
MaxFields == 2         \* elements of a list, members of an object told apart

\* A JSON value without its members' contents: None, a list of size
\* elements, or an object with size members.
PlainNone == [type |-> "none", size |-> 0]
PlainValues ==
    {PlainNone} \cup [type : {"list", "dict"}, size : 0..MaxFields]

\* A payload: a JSON value; for an object, whether it has the members
\* confidence_score and data, the value of data, and the number of its
\* other members.
Payload(t, n, c, h, d) == [type |-> t, size |-> n, conf |-> c, hasdata |-> h, data |-> d]
Lift(pl) == Payload(pl.type, pl.size, FALSE, FALSE, PlainNone)
Payloads ==
    {Lift(pl) : pl \in {q \in PlainValues : q.type # "dict"}}
        \cup {Payload("dict", n, c, FALSE, PlainNone) : n \in 0..MaxFields, c \in BOOLEAN}
        \cup {Payload("dict", n, c, TRUE, d) :
                 n \in 0..MaxFields, c \in BOOLEAN, d \in PlainValues}

\* bool(value) in Python.
PyTruthyPlain(pl) == pl.type # "none" /\ pl.size > 0
PyTruthy(v) == v.type # "none" /\ (v.size > 0 \/ v.conf \/ v.hasdata)

\* No sweep running.  failures counts, for each endpoint, the probes of the
\* sweep that found it unhealthy, up to MaxProbeFailures.
MaxProbeFailures == 2
NoSweep == [phase |-> "idle", todo |-> {}, failures |-> [i \in EndpointIds |-> 0]]

NoView == [fn |-> "none", payload |-> Lift(PlainNone),
           out |-> [outcome |-> "none", value |-> Lift(PlainNone)]]
Value(v) == [outcome |-> "value", value |-> v]
Raises == [outcome |-> "raises", value |-> Lift(PlainNone)]

(***************************************************************************)
(* Initial state: empty registry, freshly constructed client               *)
(***************************************************************************)
NoResult == [kind |-> "none", pos |-> 0, body |-> Unparsable]

Init ==
    /\ apiEndpoints = [i \in EndpointIds |-> NoRow]
    /\ nextId = 1
    /\ apiMonitors = {}
    /\ cache = EmptyCache
    /\ self_endpoints = <<TempEndpoint>>
    /\ failed_endpoints = EmptyFailed
    /\ current_api = NewCurrentApi
    /\ callsStarted = 0
    /\ pc = [c \in Callers |-> "idle"]
    /\ path = [c \in Callers |-> "home"]
    /\ activeAtStart = [c \in Callers |-> {}]
    /\ cands = [c \in Callers |-> <<>>]
    /\ idx = [c \in Callers |-> 0]
    /\ sent = [c \in Callers |-> <<>>]
    /\ pending = [c \in Callers |-> "none"]
    /\ result = [c \in Callers |-> NoResult]
    /\ probe = NoProbe
    /\ view = NoView
    /\ sweep = NoSweep
    /\ reader = NoReader
    /\ saver = "idle"

(***************************************************************************)
(* Registry mutations by the administrative collaborator                   *)
(***************************************************************************)
\* Inputs of a creation.  Row ids and URL names are interchangeable, so the
\* first row gets the first URL and the top priority; a later row may repeat
\* a URL or a priority of an earlier one.
CreateUrls(id) == IF id = 1 THEN {"u1"} ELSE {"u1", "u2"}
CreatePriorities(id) == IF id = 1 THEN {100} ELSE Priorities

\* APIEndpoint.objects.create(...): insert (is_active defaults to True), then
\* save() drops the cache keys.
CreateEndpoint ==
    /\ nextId <= MaxEndpoints
    /\ \E u \in CreateUrls(nextId), p \in CreatePriorities(nextId) :
          apiEndpoints' = [apiEndpoints EXCEPT ![nextId] = NewRow(nextId, u, p)]
    /\ nextId' = nextId + 1
    /\ cache' = SaveInvalidate(cache)
    /\ UNCHANGED <<apiMonitors, clientVars, callVars>>
    /\ UNCHANGED <<probe, view, sweep, reader, saver>>

\* endpoint.is_active = b; endpoint.save()
SetActive ==
    /\ \E i \in EndpointIds :
          /\ apiEndpoints[i].exists
          /\ apiEndpoints' = [apiEndpoints EXCEPT ![i].is_active = ~@]
    /\ cache' = SaveInvalidate(cache)
    /\ UNCHANGED <<nextId, apiMonitors, clientVars, callVars>>
    /\ UNCHANGED <<probe, view, sweep, reader, saver>>

\* A deletion that leaves the monitors of the row behind.
DeleteEndpointKeepsMonitors ==
    /\ \E i \in EndpointIds :
          /\ apiEndpoints[i].exists
          /\ apiEndpoints' = [apiEndpoints EXCEPT ![i] = NoRow]
    /\ UNCHANGED <<nextId, apiMonitors, cache, clientVars, callVars>>
    /\ UNCHANGED <<probe, view, sweep, reader, saver>>

\* endpoint.delete(): the row goes, its monitors go with it (CASCADE);
\* Model.delete is not overridden, the cache is left alone.
DeleteEndpoint ==
    /\ \E i \in EndpointIds :
          /\ apiEndpoints[i].exists
          /\ apiEndpoints' = [apiEndpoints EXCEPT ![i] = NoRow]
          /\ apiMonitors' = {m \in apiMonitors : m.endpoint # i}
    /\ UNCHANGED <<nextId, cache, clientVars, callVars>>
    /\ UNCHANGED <<probe, view, sweep, reader, saver>>

\* APIEndpoint.get_active_endpoints(): the cached list if there is one, else
\* the list read from the table, which is then cached.
GetActiveEndpoints ==
    /\ ~cache["api_endpoints"].set
    /\ \E s \in OrderedActive :
          cache' = [cache EXCEPT !["api_endpoints"] = [set |-> TRUE, val |-> s]]
    /\ UNCHANGED <<storeVars, apiMonitors, clientVars, callVars>>
    /\ UNCHANGED <<probe, view, sweep, reader, saver>>

\* Wall-clock time goes by between any two steps of a call in flight (the
\* table is read in the candidate loop only).
TimePasses ==
    /\ \E c \in Callers : pc[c] \notin {"idle", "done"}
    /\ \E u \in Urls : failed_endpoints[u].present /\ failed_endpoints[u].age < MaxAge
    /\ failed_endpoints' = Elapse(failed_endpoints, 1)
    /\ UNCHANGED <<storeVars, apiMonitors, cache, self_endpoints, current_api, callVars>>
    /\ UNCHANGED <<probe, view, sweep, reader, saver>>

(***************************************************************************)
(* FallbackAPIClient.get / post, one step per access to shared state       *)
(***************************************************************************)
\* refresh_endpoints, first statement: self.endpoints = get_api_endpoints()
Start(c) ==
    /\ pc[c] = "idle"
    /\ callsStarted < MaxCalls
    /\ callsStarted' = callsStarted + 1
    /\ \E p \in Paths : path' = [path EXCEPT ![c] = p]
    /\ self_endpoints' \in get_api_endpoints
    /\ activeAtStart' = [activeAtStart EXCEPT ![c] = ActiveIds]
    /\ pc' = [pc EXCEPT ![c] = "reset"]
    /\ UNCHANGED <<storeVars, apiMonitors, cache, failed_endpoints, current_api,
                   cands, idx, sent, pending, result>>
    /\ UNCHANGED <<probe, view, sweep, reader, saver>>

\* refresh_endpoints, second statement: self.failed_endpoints = {}
ResetFailed(c) ==
    /\ pc[c] = "reset"
    /\ failed_endpoints' = EmptyFailed
    /\ pc' = [pc EXCEPT ![c] = "iter"]
    /\ UNCHANGED <<storeVars, apiMonitors, cache, self_endpoints, current_api,
                   callsStarted, path, activeAtStart, cands, idx, sent, pending, result>>
    /\ UNCHANGED <<probe, view, sweep, reader, saver>>

\* for api_endpoint in self.endpoints: the loop iterates over the list object
\* bound to self.endpoints at this moment.
BeginLoop(c) ==
    /\ pc[c] = "iter"
    /\ cands' = [cands EXCEPT ![c] = self_endpoints]
    /\ idx' = [idx EXCEPT ![c] = 1]
    /\ pc' = [pc EXCEPT ![c] = "check"]
    /\ UNCHANGED <<storeVars, apiMonitors, cache, clientVars,
                   callsStarted, path, activeAtStart, sent, pending, result>>
    /\ UNCHANGED <<probe, view, sweep, reader, saver>>

\* Loop head and _should_retry_endpoint, membership test (line 142); when the
\* list is exhausted: raise Exception("All API endpoints failed...").
LoopHead(c) ==
    /\ pc[c] = "check"
    /\ IF idx[c] > Len(cands[c])
       THEN /\ result' = [result EXCEPT ![c] = [kind |-> "all_failed", pos |-> 0, body |-> Unparsable]]
            /\ pc' = [pc EXCEPT ![c] = "done"]
       ELSE /\ pc' = [pc EXCEPT ![c] =
                 IF failed_endpoints[cands[c][idx[c]].url].present THEN "lookup" ELSE "request"]
            /\ UNCHANGED result
    /\ UNCHANGED <<storeVars, apiMonitors, cache, clientVars,
                   callsStarted, path, activeAtStart, cands, idx, sent, pending>>
    /\ UNCHANGED <<probe, view, sweep, reader, saver>>

\* _should_retry_endpoint, lookup (line 146) and backoff test; a missing key
\* raises KeyError outside the try block.
Lookup(c) ==
    /\ pc[c] = "lookup"
    /\ LET e == failed_endpoints[cands[c][idx[c]].url] IN
       IF ~e.present
       THEN /\ result' = [result EXCEPT ![c] = [kind |-> "key_error", pos |-> 0, body |-> Unparsable]]
            /\ pc' = [pc EXCEPT ![c] = "done"]
            /\ UNCHANGED idx
       ELSE \E retry \in ShouldRetry(e) :
            /\ pc' = [pc EXCEPT ![c] = IF retry THEN "request" ELSE "check"]
            /\ idx' = [idx EXCEPT ![c] = IF retry THEN @ ELSE @ + 1]
            /\ UNCHANGED result
    /\ UNCHANGED <<storeVars, apiMonitors, cache, clientVars,
                   callsStarted, path, activeAtStart, cands, sent, pending>>
    /\ UNCHANGED <<probe, view, sweep, reader, saver>>

\* tried_endpoints.append(...); session.get/post(...); _handle_response(...).
\* The request carries the caller's params (data) as they are, for every
\* candidate alike.  The answer of the upstream is the input of the step.
Dispatch(c, answers) ==
    /\ pc[c] = "request"
    /\ \E r \in answers :
       /\ sent' = [sent EXCEPT ![c] =
             Append(@, [pos |-> idx[c], force_fresh |-> FALSE, answer |-> r])]
       /\ failed_endpoints' = Elapse(failed_endpoints, Duration(r))
       /\ pending' = [pending EXCEPT ![c] = ExceptionKind(r)]
       /\ pc' = [pc EXCEPT ![c] =
             IF ExceptionKind(r) = "none" THEN "mark_success" ELSE "mark_failed"]
    /\ UNCHANGED <<storeVars, apiMonitors, cache, self_endpoints, current_api,
                   callsStarted, path, activeAtStart, cands, idx, result>>
    /\ UNCHANGED <<probe, view, sweep, reader, saver>>

\* _mark_endpoint_success, membership test (line 175)
MarkSuccessTest(c) ==
    /\ pc[c] = "mark_success"
    /\ pc' = [pc EXCEPT ![c] =
          IF failed_endpoints[cands[c][idx[c]].url].present THEN "success_del" ELSE "accepted"]
    /\ UNCHANGED <<storeVars, apiMonitors, cache, clientVars,
                   callsStarted, path, activeAtStart, cands, idx, sent, pending, result>>
    /\ UNCHANGED <<probe, view, sweep, reader, saver>>

\* _mark_endpoint_success, del (line 176); a missing key raises KeyError
\* inside the try block, which the generic handler takes.
MarkSuccessDel(c) ==
    /\ pc[c] = "success_del"
    /\ LET u == cands[c][idx[c]].url IN
       IF ~failed_endpoints[u].present
       THEN /\ pending' = [pending EXCEPT ![c] = "error"]
            /\ pc' = [pc EXCEPT ![c] = "mark_failed"]
            /\ UNCHANGED failed_endpoints
       ELSE /\ failed_endpoints' = [failed_endpoints EXCEPT ![u] = NotFailed]
            /\ pc' = [pc EXCEPT ![c] = "accepted"]
            /\ UNCHANGED pending
    /\ UNCHANGED <<storeVars, apiMonitors, cache, self_endpoints, current_api,
                   callsStarted, path, activeAtStart, cands, idx, sent, result>>
    /\ UNCHANGED <<probe, view, sweep, reader, saver>>

\* _update_api_monitor(..., "up", ...); self.current_api = {...}; return result
Accept(c) ==
    /\ pc[c] = "accepted"
    /\ LET ep == cands[c][idx[c]]
           b == sent[c][Len(sent[c])].answer.body IN
       /\ apiMonitors' = UpdateApiMonitor(apiMonitors, ep, path[c], "up", TRUE, FALSE, Truthy(b))
       /\ current_api' = [endpoint |-> ep,
                           success_count |-> current_api.success_count + 1,
                           error_log |-> current_api.error_log]
       /\ result' = [result EXCEPT ![c] = [kind |-> "payload", pos |-> idx[c], body |-> b]]
    /\ pc' = [pc EXCEPT ![c] = "done"]
    /\ UNCHANGED <<storeVars, cache, self_endpoints, failed_endpoints,
                   callsStarted, path, activeAtStart, cands, idx, sent, pending>>
    /\ UNCHANGED <<probe, view, sweep, reader, saver>>

\* _mark_endpoint_failed, membership test (line 162) and the insert of a new
\* entry (line 166)
MarkFailedTest(c) ==
    /\ pc[c] = "mark_failed"
    /\ LET u == cands[c][idx[c]].url IN
       IF failed_endpoints[u].present
       THEN /\ pc' = [pc EXCEPT ![c] = "failed_get"]
            /\ UNCHANGED failed_endpoints
       ELSE /\ failed_endpoints' = MarkFailedNew(failed_endpoints, u)
            /\ pc' = [pc EXCEPT ![c] = "record_failure"]
    /\ UNCHANGED <<storeVars, apiMonitors, cache, self_endpoints, current_api,
                   callsStarted, path, activeAtStart, cands, idx, sent, pending, result>>
    /\ UNCHANGED <<probe, view, sweep, reader, saver>>

\* _mark_endpoint_failed, lookup and update (lines 163-164); a missing key
\* raises KeyError inside the except handler, which leaves get/post.
MarkFailedGet(c) ==
    /\ pc[c] = "failed_get"
    /\ LET u == cands[c][idx[c]].url IN
       IF ~failed_endpoints[u].present
       THEN /\ result' = [result EXCEPT ![c] = [kind |-> "key_error", pos |-> 0, body |-> Unparsable]]
            /\ pc' = [pc EXCEPT ![c] = "done"]
            /\ UNCHANGED failed_endpoints
       ELSE /\ failed_endpoints' = MarkFailedAgain(failed_endpoints, u)
            /\ pc' = [pc EXCEPT ![c] = "record_failure"]
            /\ UNCHANGED result
    /\ UNCHANGED <<storeVars, apiMonitors, cache, self_endpoints, current_api,
                   callsStarted, path, activeAtStart, cands, idx, sent, pending>>
    /\ UNCHANGED <<probe, view, sweep, reader, saver>>

\* A handler that leaves the cursor on the failed candidate.
RecordFailureRetries(c) ==
    /\ pc[c] = "record_failure"
    /\ apiMonitors' = UpdateApiMonitor(apiMonitors, cands[c][idx[c]], path[c],
                                       FailureStatus(pending[c]), FALSE, TRUE, FALSE)
    /\ current_api' = [current_api EXCEPT !.error_log =
          LastEntries(@, ErrorLogKept) \o <<ErrorEntry(cands[c][idx[c]], pending[c])>>]
    /\ pending' = [pending EXCEPT ![c] = "none"]
    /\ pc' = [pc EXCEPT ![c] = "check"]
    /\ UNCHANGED <<storeVars, cache, self_endpoints, failed_endpoints,
                   callsStarted, path, activeAtStart, cands, idx, sent, result>>
    /\ UNCHANGED <<probe, view, sweep, reader, saver>>

\* _update_api_monitor(..., status, None, str(e)); the error entry is put at
\* the end of current_api["error_log"][-9:]; last_exception = e; the loop
\* moves on to the next candidate.
RecordFailure(c) ==
    /\ pc[c] = "record_failure"
    /\ apiMonitors' = UpdateApiMonitor(apiMonitors, cands[c][idx[c]], path[c],
                                       FailureStatus(pending[c]), FALSE, TRUE, FALSE)
    /\ current_api' = [current_api EXCEPT !.error_log =
          LastEntries(@, ErrorLogKept) \o <<ErrorEntry(cands[c][idx[c]], pending[c])>>]
    /\ pending' = [pending EXCEPT ![c] = "none"]
    /\ idx' = [idx EXCEPT ![c] = @ + 1]
    /\ pc' = [pc EXCEPT ![c] = "check"]
    /\ UNCHANGED <<storeVars, cache, self_endpoints, failed_endpoints,
                   callsStarted, path, activeAtStart, cands, sent, result>>
    /\ UNCHANGED <<probe, view, sweep, reader, saver>>

\* The caller has its result; the thread is free for the next call.
Return(c) ==
    /\ pc[c] = "done"
    /\ pc' = [pc EXCEPT ![c] = "idle"]
    /\ cands' = [cands EXCEPT ![c] = <<>>]
    /\ idx' = [idx EXCEPT ![c] = 0]
    /\ sent' = [sent EXCEPT ![c] = <<>>]
    /\ result' = [result EXCEPT ![c] = NoResult]
    /\ activeAtStart' = [activeAtStart EXCEPT ![c] = {}]
    /\ UNCHANGED <<storeVars, apiMonitors, cache, clientVars,
                   callsStarted, path, pending>>
    /\ UNCHANGED <<probe, view, sweep, reader, saver>>

CallStep(c, answers) ==
    \/ Start(c) \/ ResetFailed(c) \/ BeginLoop(c) \/ LoopHead(c) \/ Lookup(c)
    \/ Dispatch(c, answers) \/ MarkSuccessTest(c) \/ MarkSuccessDel(c) \/ Accept(c)
    \/ MarkFailedTest(c) \/ MarkFailedGet(c) \/ RecordFailure(c) \/ Return(c)

Environment ==
    CreateEndpoint \/ SetActive \/ DeleteEndpoint \/ GetActiveEndpoints \/ TimePasses

\* Sequential use: one caller.
Next == Environment \/ \E c \in SeqCallers : CallStep(c, Responses)
Spec == Init /\ [][Next]_vars

\* Overlapping calls on the shared singleton, over a registry that has been
\* filled before and whose rows are switched on and off meanwhile.
Registries ==
    {r \in [EndpointIds -> [exists : {TRUE}, name : {"a", "b"}, url : {"u1", "u2"},
                            source_domain : {"d1", "d2"}, priority : Priorities,
                            is_active : BOOLEAN, last_used : {FALSE},
                            success_count : {0}]] :
        \A i \in EndpointIds :
            /\ r[i].url \in CreateUrls(i) /\ r[i].priority \in CreatePriorities(i)
            /\ r[i].name = EndpointName(i) /\ r[i].source_domain = EndpointDomain(i)}

InitConc ==
    /\ apiEndpoints \in Registries
    /\ nextId = MaxEndpoints + 1
    /\ apiMonitors = {}
    /\ cache = EmptyCache
    /\ self_endpoints \in get_api_endpoints
    /\ failed_endpoints = EmptyFailed
    /\ current_api = NewCurrentApi
    /\ callsStarted = 0
    /\ pc = [c \in Callers |-> "idle"]
    /\ path = [c \in Callers |-> "home"]
    /\ activeAtStart = [c \in Callers |-> {}]
    /\ cands = [c \in Callers |-> <<>>]
    /\ idx = [c \in Callers |-> 0]
    /\ sent = [c \in Callers |-> <<>>]
    /\ pending = [c \in Callers |-> "none"]
    /\ result = [c \in Callers |-> NoResult]
    /\ probe = NoProbe
    /\ view = NoView
    /\ sweep = NoSweep
    /\ reader = NoReader
    /\ saver = "idle"

NextConc == SetActive \/ TimePasses \/ \E c \in Callers : CallStep(c, UpOrDown)
SpecConc == InitConc /\ [][NextConc]_vars

\* A thread inside get/post keeps running: every request ends (timeouts of
\* 3 s to connect and 10 s to read) and the scheduler serves every thread.
InCall(c) == pc[c] # "idle" /\ CallStep(c, UpOrDown)

\* Overlapping calls while the registry is left alone, with the threads
\* scheduled fairly.
NextOverlap == TimePasses \/ \E c \in Callers : CallStep(c, UpOrDown)
SpecOverlapFair ==
    InitConc /\ [][NextOverlap]_vars /\ \A c \in Callers : WF_vars(InCall(c))

(***************************************************************************)
(* Health prober: APIMonitor.check_endpoint                                *)
(***************************************************************************)
\* Path the periodic task checks (the one of ENDPOINTS_TO_CHECK that the
\* orchestrator calls use too).
ProbePaths == {"home"}

\* Status check_endpoint derives from the answer of the probe request.
ProbeStatus(r) ==
    IF r.kind = "timeout" THEN "timeout"
    ELSE IF r.kind = "connection" THEN "down"
    ELSE IF r.status >= 200 /\ r.status < 300 THEN "up"
    ELSE "error"

\* check_endpoint, first part: cls.objects.get_or_create(endpoint, path).  The
\* unique constraint makes the lookup and the insert one step; a new row has
\* the default status.  An endpoint deleted meanwhile, or several rows for
\* the pair, make get_or_create raise, and a dummy object is returned.
CheckEndpointGetOrCreate ==
    /\ ~probe.active
    /\ \E i \in EndpointIds, p \in ProbePaths :
          /\ apiEndpoints[i].exists
          /\ Cardinality(MonitorsOf(i, p)) <= 1
          /\ LET old == MonitorsOf(i, p)
                 pk == IF old = {} THEN NextMonitorPk(apiMonitors)
                                   ELSE (CHOOSE m \in old : TRUE).pk IN
             /\ apiMonitors' =
                   IF old = {}
                   THEN apiMonitors \cup {MonitorRow(pk, i, p, "unknown", FALSE, FALSE, FALSE)}
                   ELSE apiMonitors
             /\ probe' = [active |-> TRUE, endpoint |-> i, path |-> p, pk |-> pk,
                          answer |-> NoAnswer]
    /\ UNCHANGED <<storeVars, cache, clientVars, callVars, view, sweep, reader, saver>>

\* check_endpoint, second part: the probe request and monitor.save().  save()
\* updates the row with the primary key held; when that row is gone it
\* inserts one, which fails if the endpoint is gone or the pair has a row.
\* The caller gets the monitor with the status derived from the answer.
CheckEndpointSave(answers) ==
    /\ probe.active
    /\ \E r \in answers :
          /\ LET st == ProbeStatus(r)
                 row == MonitorRow(probe.pk, probe.endpoint, probe.path, st,
                                   r.kind = "http", st # "up", r.kind = "http")
                 held == {m \in apiMonitors : m.pk = probe.pk} IN
             apiMonitors' =
                 IF held # {} THEN (apiMonitors \ held) \cup {row}
                 ELSE IF apiEndpoints[probe.endpoint].exists
                         /\ MonitorsOf(probe.endpoint, probe.path) = {}
                      THEN apiMonitors \cup {row}
                 ELSE apiMonitors
          /\ probe' = [NoProbe EXCEPT !.answer = r]
    /\ UNCHANGED <<storeVars, cache, clientVars, callVars, view, sweep, reader, saver>>

\* Orchestrator calls of one thread interleaved with health checks, over a
\* filled registry whose rows may be deleted meanwhile.
NextMonitor ==
    \/ DeleteEndpoint
    \/ TimePasses
    \/ CheckEndpointGetOrCreate
    \/ CheckEndpointSave(UpOrDown)
    \/ \E c \in SeqCallers : CallStep(c, UpOrDown)
SpecMonitor == InitConc /\ [][NextMonitor]_vars

\* APIMonitorAdmin: no row is added by hand, a superuser may delete rows.
DeleteMonitor ==
    /\ \E m \in apiMonitors : apiMonitors' = apiMonitors \ {m}
    /\ UNCHANGED <<storeVars, cache, clientVars, callVars, probe, view, sweep, reader, saver>>

\* The monitor table under all of its writers: orchestrator calls, health
\* checks, endpoint deletions and the admin site.
NextRecords == NextMonitor \/ DeleteMonitor
SpecRecords == InitConc /\ [][NextRecords]_vars

\* The two writers of the monitor table, each with an answer for every
\* status, over a filled registry.
NextWriters ==
    \/ TimePasses
    \/ CheckEndpointGetOrCreate
    \/ CheckEndpointSave(StatusAnswers)
    \/ \E c \in SeqCallers : CallStep(c, StatusAnswers)
SpecWriters == InitConc /\ [][NextWriters]_vars

\* Health checks of the periodic task over a filled registry that the
\* administrative collaborator changes meanwhile.
NextProbe ==
    \/ SetActive
    \/ DeleteEndpoint
    \/ CheckEndpointGetOrCreate
    \/ CheckEndpointSave(ProbeResponses)
SpecProbe == InitConc /\ [][NextProbe]_vars

(***************************************************************************)
(* Health sweep: fix_endpoints / fix_inactive_endpoints and                *)
(* fix_health_check_failures                                               *)
(***************************************************************************)
\* check_endpoint_health(endpoint): one GET of the liveness path; true only
\* for a 2xx answer whose body parses and carries the healthy marker.
check_endpoint_health(r) ==
    /\ r.kind = "http"
    /\ r.status >= 200 /\ r.status < 300
    /\ r.body.shape # "unparsable"
    /\ r.body.marker

\* The objects a queryset yields: copies of the rows as they are when the
\* loop starts.
Snapshot(ids) == {[id |-> i, row |-> apiEndpoints[i]] : i \in ids}

\* endpoint.is_active = False; endpoint.save() on an object of the loop: all
\* fields of the copy are written (the row is inserted again if it has been
\* deleted), then the two cache keys are dropped.
SaveInactive(item) == [apiEndpoints EXCEPT ![item.id] = [item.row EXCEPT !.is_active = FALSE]]

\* endpoints = APIEndpoint.objects.all()
SweepStart ==
    /\ sweep.phase = "idle"
    /\ sweep' = [sweep EXCEPT !.phase = "inactive",
                              !.todo = Snapshot({i \in EndpointIds : apiEndpoints[i].exists})]
    /\ UNCHANGED <<storeVars, apiMonitors, cache, clientVars, callVars, probe, view, reader, saver>>

\* First loop, one endpoint: an inactive one is saved as inactive again.
FixInactive ==
    /\ sweep.phase = "inactive"
    /\ \E item \in sweep.todo :
          /\ sweep' = [sweep EXCEPT !.todo = @ \ {item}]
          /\ IF ~item.row.is_active
             THEN /\ apiEndpoints' = SaveInactive(item)
                  /\ cache' = SaveInvalidate(cache)
             ELSE UNCHANGED <<apiEndpoints, cache>>
    /\ UNCHANGED <<nextId, apiMonitors, clientVars, callVars, probe, view, reader, saver>>

\* active_endpoints = APIEndpoint.objects.filter(is_active=True)
SweepHealthStart ==
    /\ sweep.phase = "inactive"
    /\ sweep.todo = {}
    /\ sweep' = [sweep EXCEPT !.phase = "health", !.todo = Snapshot(ActiveIds)]
    /\ UNCHANGED <<storeVars, apiMonitors, cache, clientVars, callVars, probe, view, reader, saver>>

\* Second loop, one endpoint: one probe; an endpoint found unhealthy is
\* marked inactive and saved.
FixHealth(answers) ==
    /\ sweep.phase = "health"
    /\ \E item \in sweep.todo, r \in answers :
          LET healthy == check_endpoint_health(r) IN
          /\ sweep' = [sweep EXCEPT
                          !.todo = @ \ {item},
                          !.failures[item.id] =
                              IF healthy THEN @ ELSE Min(@ + 1, MaxProbeFailures)]
          /\ IF ~healthy
             THEN /\ apiEndpoints' = SaveInactive(item)
                  /\ cache' = SaveInvalidate(cache)
             ELSE UNCHANGED <<apiEndpoints, cache>>
    /\ UNCHANGED <<nextId, apiMonitors, clientVars, callVars, probe, view, reader, saver>>

\* The second loop has run through.
SweepEnd ==
    /\ sweep.phase = "health"
    /\ sweep.todo = {}
    /\ sweep' = [sweep EXCEPT !.phase = "idle"]
    /\ UNCHANGED <<storeVars, apiMonitors, cache, clientVars, callVars, probe, view, reader, saver>>

\* The sweep running over a filled registry, again and again.
NextSweep ==
    SweepStart \/ FixInactive \/ SweepHealthStart \/ FixHealth(ProbeResponses) \/ SweepEnd
SpecSweep == InitConc /\ [][NextSweep]_vars

(***************************************************************************)
(* Page views: streamapp/views.py over the helpers of api_client.py        *)
(***************************************************************************)
\* The dictionary get_home_data returns when it catches an exception.
HomeFallback == Payload("dict", 4, FALSE, FALSE, PlainNone)

\* get_home_data: the result of api_client.get; a non-empty result is
\* logged through result.get(...), which a list does not have: the
\* AttributeError is caught and the fallback dictionary returned.
get_home_data(p) ==
    IF PyTruthy(p) /\ p.type # "dict" THEN HomeFallback ELSE p

\* A normalisation that hands the wrapped object on as it is.
index_normalize_keeps_wrapper(v) ==
    IF v.type # "dict" THEN Raises ELSE Value(v)

\* index: an object with confidence_score and data becomes its data member
\* (an empty one raises); anything that is not an object then raises.
index_normalize(v) ==
    LET home_data ==
            IF v.type = "dict" /\ v.conf /\ v.hasdata
            THEN IF ~PyTruthyPlain(v.data) THEN Raises ELSE Value(Lift(v.data))
            ELSE Value(v) IN
    IF home_data.outcome = "raises" THEN Raises
    ELSE IF home_data.value.type # "dict" THEN Raises
    ELSE home_data

EmptyList == Lift([type |-> "list", size |-> 0])

\* get_anime_terbaru_data: an empty result becomes []; an object with
\* confidence_score and data becomes its data member ([] when that is
\* empty); any other object becomes its non-empty data member or []; a
\* list is returned as it is.
anime_terbaru_normalize(v) ==
    IF ~PyTruthy(v) THEN Value(EmptyList)
    ELSE IF v.type = "dict" /\ v.conf /\ v.hasdata
    THEN IF ~PyTruthyPlain(v.data) THEN Value(EmptyList) ELSE Value(Lift(v.data))
    ELSE IF v.type # "list"
    THEN IF v.type = "dict"
         THEN IF v.hasdata /\ PyTruthyPlain(v.data) THEN Value(Lift(v.data))
              ELSE Value(EmptyList)
         ELSE Value(EmptyList)
    ELSE Value(v)

\* The home page is requested: get_home_data, then the normalisation.
IndexView ==
    /\ \E p \in Payloads :
          view' = [fn |-> "index", payload |-> p,
                   out |-> index_normalize(get_home_data(p))]
    /\ UNCHANGED <<storeVars, apiMonitors, cache, clientVars, callVars, probe, sweep, reader, saver>>

\* A listing page is requested: get_anime_terbaru returns the result of
\* api_client.get, which is then normalised.
AnimeTerbaruView ==
    /\ \E p \in Payloads :
          view' = [fn |-> "anime_terbaru", payload |-> p,
                   out |-> anime_terbaru_normalize(p)]
    /\ UNCHANGED <<storeVars, apiMonitors, cache, clientVars, callVars, probe, sweep, reader, saver>>

NextViews == IndexView \/ AnimeTerbaruView
SpecViews == Init /\ [][NextViews]_vars

TypeOK ==
    /\ nextId \in 1..(MaxEndpoints + 1)
    /\ callsStarted \in 0..MaxCalls
    /\ \A c \in Callers : idx[c] \in 0..(MaxEndpoints + 1)
    /\ \A c \in Callers : activeAtStart[c] \subseteq EndpointIds

(***************************************************************************)
(* Vocabulary of the properties                                            *)
(***************************************************************************)
\* Threshold of the confidence indicator, in hundredths.
ConfidenceThreshold == 50

\* Body that is empty or null, or whose data fields are all empty or absent.
EmptyBody(b) ==
    \/ b.shape = "null"
    \/ (b.data \in {"absent", "null", "empty"} /\ b.fields = 0)

\* Body with a confidence indicator below the threshold.
LowConfidence(b) == b.conf >= 0 /\ b.conf < ConfidenceThreshold

\* Content validation of a parsed 2xx body: what the validator is to reject.
ValidatorRejects(b) == EmptyBody(b) \/ LowConfidence(b)

\* A dispatch fails by timeout, connection error, non-2xx status, unparsable
\* body or validator rejection; otherwise it succeeds.
FailsAtCandidate(r) == ExceptionKind(r) # "none" \/ ValidatorRejects(r.body)

\* Positions of the candidate list that have received a request of the call.
Dispatched(c) == {sent[c][k].pos : k \in DOMAIN sent[c]}

\* Ids of the persisted endpoints in a candidate list.
PersistedIds(s) == {s[i].id : i \in DOMAIN s} \cap EndpointIds

DistinctUrls(s) == \A i, j \in DOMAIN s : i # j => s[i].url # s[j].url

\* The call of c has returned to its caller or raised.
Finished(c) == pc[c] = "done"

(***************************************************************************)
(* Properties                                                              *)
(***************************************************************************)
\* C1: in sequential use, when every candidate before the last one fails
\* (transport, status, parse or validator rejection) and the last one
\* succeeds, the finished call has returned the last candidate's payload and
\* current_api.endpoint is the last candidate.  The answers of a call are
\* the ones it received; a candidate that received no request is free to
\* answer as the case demands.
C1_LastCandidateServes ==
    \A c \in SeqCallers :
        LET n == Len(cands[c]) IN
        (/\ Finished(c)
         /\ n >= 1
         /\ \A k \in DOMAIN sent[c] :
               IF sent[c][k].pos < n
               THEN FailsAtCandidate(sent[c][k].answer)
               ELSE ~FailsAtCandidate(sent[c][k].answer))
        => /\ result[c].kind = "payload"
           /\ result[c].pos = n
           /\ current_api.endpoint = cands[c][n]

\* C2: in sequential use, when all candidates are persisted rows (their URLs
\* may coincide) and every one of them fails, the finished call has raised
\* the all-endpoints-failed error and each candidate has a monitor row for
\* the path of the call whose status is not "up".  The failures taken here
\* are timeout, connection error, non-2xx status and unparsable body; the
\* rejection of a parsed body is the subject of C7 and C8.
C2_AllFailRecordsEveryCandidate ==
    \A c \in SeqCallers :
        (/\ Finished(c)
         /\ \A i \in DOMAIN cands[c] :
               cands[c][i].id \in EndpointIds /\ apiEndpoints[cands[c][i].id].exists
         /\ \A k \in DOMAIN sent[c] : ExceptionKind(sent[c][k].answer) # "none")
        => /\ result[c].kind = "all_failed"
           /\ \A i \in DOMAIN cands[c] :
                 \E m \in MonitorsOf(cands[c][i].id, path[c]) : m.status # "up"

\* C3: the requests of one call go to the candidates in list order: the k-th
\* request goes to candidate k, and every request but the latest one of the
\* call has failed (none follows an accepted response).
C3_DispatchInListOrder ==
    \A c \in Callers :
        \A k \in DOMAIN sent[c] :
            /\ sent[c][k].pos = k
            /\ k < Len(sent[c]) => ExceptionKind(sent[c][k].answer) # "none"

\* C4: with overlapping calls on the shared client, a call whose candidates
\* have pairwise distinct URLs passes no candidate without a request to it;
\* in particular it has sent a request to every candidate when it raises the
\* all-endpoints-failed error.
C4_OverlapSkipsNoCandidate ==
    \A c \in Callers :
        DistinctUrls(cands[c]) =>
            \A i \in DOMAIN cands[c] : i < idx[c] => i \in Dispatched(c)

\* C5: the candidates a call iterates over are exactly the endpoints that
\* were active in the registry when the call started.
C5_CandidatesAreActiveAtStart ==
    \A c \in Callers :
        pc[c] \notin {"idle", "reset", "iter"} =>
            PersistedIds(cands[c]) = activeAtStart[c]

\* C6: the step by which a call falls back from a failed candidate to the
\* next one leaves the whole shared cache empty.
C6_FallbackPurgesCache ==
    [][\A c \in SeqCallers :
          (pc[c] = "record_failure" /\ pc'[c] = "check" /\ idx'[c] <= Len(cands[c]))
              => cache' = EmptyCache]_vars

\* C7: in sequential use, a parsed 2xx answer with a confidence indicator
\* below 0.5 is not what the finished call returns, and one with a
\* confidence indicator of 0.5 or more (and data) is what it returns.
C7_ConfidenceThresholdEnforced ==
    \A c \in SeqCallers :
        Finished(c) =>
            \A k \in DOMAIN sent[c] :
                LET a == sent[c][k].answer
                    returned == /\ result[c].kind = "payload"
                                /\ result[c].pos = sent[c][k].pos
                                /\ result[c].body = a.body IN
                (ExceptionKind(a) = "none" /\ a.body.conf >= 0) =>
                    IF LowConfidence(a.body) THEN ~returned ELSE returned

\* C8: in sequential use, a 2xx answer whose body is null or whose data
\* fields are all empty is not what the finished call returns.
C8_EmptyBodyRejected ==
    \A c \in SeqCallers :
        Finished(c) =>
            \A k \in DOMAIN sent[c] :
                (ExceptionKind(sent[c][k].answer) = "none" /\ EmptyBody(sent[c][k].answer.body))
                    => ~(result[c].kind = "payload" /\ result[c].pos = sent[c][k].pos)

\* C9: in sequential use, after a failure at a candidate (transport, status,
\* parse or validator rejection) the finished call has either returned the
\* payload of a later candidate or raised the all-endpoints-failed error.
C9_FailureNeverSurfaces ==
    \A c \in SeqCallers :
        Finished(c) =>
            \A k \in DOMAIN sent[c] :
                FailsAtCandidate(sent[c][k].answer) =>
                    \/ result[c].kind = "all_failed"
                    \/ (result[c].kind = "payload" /\ result[c].pos > sent[c][k].pos)

\* C10: every call that has started finishes, and a call sends at most one
\* request to each candidate of its list, hence no more requests than the
\* list has candidates.
C10_OnePassAndTermination ==
    /\ [](\A c \in Callers :
            /\ Len(sent[c]) <= Len(cands[c])
            /\ \A j, k \in DOMAIN sent[c] : j # k => sent[c][j].pos # sent[c][k].pos)
    /\ \A c \in Callers : (pc[c] = "reset") ~> Finished(c)

\* A call that found both of its two candidates failing, one request each.
C10_Witness ==
    \E c \in Callers :
        /\ Finished(c)
        /\ result[c].kind = "all_failed"
        /\ Len(cands[c]) = MaxEndpoints
        /\ Dispatched(c) = DOMAIN cands[c]

\* Position of a name in ascending order of names.
NameRank(n) == IF n = "a" THEN 1 ELSE IF n = "b" THEN 2 ELSE 3

\* A list in the order priority descending, then name ascending.
InContractOrder(s) ==
    \A i, j \in DOMAIN s :
        i < j => \/ s[i].priority > s[j].priority
                 \/ (s[i].priority = s[j].priority
                     /\ NameRank(s[i].name) <= NameRank(s[j].name))

\* C11: whenever some endpoint is active, the list that get_api_endpoints
\* returns holds exactly the active endpoints, ordered by priority descending
\* and, at equal priority, by name ascending; hence only one list can be
\* returned for a given registry.
C11_ListedByPriorityThenName ==
    ActiveIds # {} =>
        /\ \A l \in get_api_endpoints :
              PersistedIds(l) = ActiveIds /\ Len(l) = Cardinality(ActiveIds)
                  /\ InContractOrder(l)
        /\ \A l1, l2 \in get_api_endpoints : l1 = l2

\* What APIEndpoint.get_active_endpoints() returns in the current state: the
\* cached list if there is one, else the list read from the table.
get_active_endpoints ==
    IF cache["api_endpoints"].set THEN {cache["api_endpoints"].val} ELSE OrderedActive

\* C12: after any creation, update or deletion of endpoints, the next
\* get_active_endpoints() returns exactly the endpoints that are active in
\* the table now, never a list cached before the mutation.
C12_CachedListIsCurrent ==
    \A l \in get_active_endpoints :
        {l[i] : i \in DOMAIN l} = ActiveIds /\ Len(l) = Cardinality(ActiveIds)

\* Two rows of the monitor table for the same (endpoint, path) are one row.
MonitorPairsUnique(mons) ==
    \A m1, m2 \in mons :
        (m1.endpoint = m2.endpoint /\ m1.endpoint_path = m2.endpoint_path) => m1 = m2

\* C13: under interleaved orchestrator writes and health checks the monitor
\* table holds at most one row per (endpoint, path), and a write to a pair
\* that has a row keeps that row (same primary key) instead of adding one.
C13_OneMonitorPerPair ==
    /\ [](MonitorPairsUnique(apiMonitors))
    /\ [][\A m \in apiMonitors : \A n \in apiMonitors' :
            (m.endpoint = n.endpoint /\ m.endpoint_path = n.endpoint_path)
                => m.pk = n.pk]_vars

\* The orchestrator is about to write the row that a health check in flight
\* holds.
C13_Witness ==
    /\ probe.active
    /\ \E c \in SeqCallers :
          /\ pc[c] \in {"accepted", "record_failure"}
          /\ cands[c][idx[c]].id = probe.endpoint
          /\ path[c] = probe.path
          /\ \E m \in apiMonitors : m.pk = probe.pk /\ m.status # "unknown"

\* Status the monitor is to hold after a dispatch with answer r.
OutcomeStatus(r) ==
    IF r.kind = "timeout" THEN "timeout"
    ELSE IF r.kind = "connection" THEN "down"
    ELSE IF r.status < 200 \/ r.status >= 300 \/ r.body.shape = "unparsable" THEN "error"
    ELSE "up"

\* The candidate is a row of the endpoint table.
IsPersisted(ep) == ep.id \in EndpointIds /\ apiEndpoints[ep.id].exists

C15_AcceptanceCountsOnEndpoint ==
    [][\A c \in SeqCallers :
          (pc[c] = "accepted" /\ pc'[c] = "done" /\ IsPersisted(cands[c][idx[c]]))
          => LET id == cands[c][idx[c]].id IN
             /\ apiEndpoints'[id].success_count = apiEndpoints[id].success_count + 1
             /\ apiEndpoints'[id].last_used]_vars

\* Statuses a monitor write can carry.
MonitorStatuses == {"up", "down", "error", "timeout"}

\* C16: recording an outcome for the temporary default endpoint changes
\* neither the monitor table nor the endpoint table, whatever the status,
\* and the call goes on as usual: the step that ends the handling of a
\* dispatch to the default endpoint leaves both tables alone and returns the
\* payload or moves on to the loop head.
C16_DefaultEndpointRecordsNothing ==
    /\ [](\A p \in Paths, st \in MonitorStatuses, rt \in BOOLEAN :
            UpdateApiMonitor(apiMonitors, TempEndpoint, p, st, rt, ~rt, rt) = apiMonitors)
    /\ [][\A c \in SeqCallers :
            (pc[c] \in {"accepted", "record_failure"} /\ pc'[c] # pc[c]
             /\ cands[c][idx[c]] = TempEndpoint)
            => /\ apiMonitors' = apiMonitors
               /\ apiEndpoints' = apiEndpoints
               /\ \/ pc'[c] = "check"
                  \/ pc'[c] = "done" /\ result'[c].kind = "payload"]_vars

\* A call served by the default endpoint has finished.
C16_Witness ==
    \E c \in SeqCallers :
        /\ Finished(c)
        /\ cands[c] = <<TempEndpoint>>
        /\ result[c].kind = "payload"
        /\ Dispatched(c) = {1}

\* C17: whatever has been created, switched off or deleted, and whether or
\* not the table can be read, get_api_endpoints returns a non-empty list;
\* with no active endpoint it returns the default endpoint alone; the list a
\* client holds is never empty; and no row of the endpoint table is the
\* default endpoint.
C17_AlwaysACandidate ==
    /\ \A l \in get_api_endpoints \cup get_api_endpoints_unavailable : Len(l) >= 1
    /\ ActiveIds = {} => get_api_endpoints = {<<TempEndpoint>>}
    /\ ActiveIds # {} => \A l \in get_api_endpoints : \A i \in DOMAIN l : IsPersisted(l[i])
    /\ Len(self_endpoints) >= 1
    /\ \A i \in EndpointIds : apiEndpoints[i].exists => apiEndpoints[i].url # DefaultUrl

\* Every row has been switched off and a call has read the registry since.
C17_Witness ==
    /\ \A i \in EndpointIds : apiEndpoints[i].exists /\ ~apiEndpoints[i].is_active
    /\ self_endpoints = <<TempEndpoint>>
    /\ \E c \in SeqCallers : pc[c] = "reset"

(***************************************************************************)
(* FallbackAPIClient.get_current_api_info                                  *)
(***************************************************************************)
\* Number of monitor rows of an endpoint with a given status.
StatusCount(id, st) == Cardinality({m \in apiMonitors : m.endpoint = id /\ m.status = st})

\* Status by majority over the monitor rows of the endpoint.
InfoStatus(id) ==
    IF {m \in apiMonitors : m.endpoint = id} = {} THEN "unknown"
    ELSE IF StatusCount(id, "up") > StatusCount(id, "down") + StatusCount(id, "error")
                                        + StatusCount(id, "timeout") THEN "up"
    ELSE IF StatusCount(id, "down") > 0 THEN "down"
    ELSE IF StatusCount(id, "error") > 0 THEN "error"
    ELSE IF StatusCount(id, "timeout") > 0 THEN "timeout"
    ELSE "unknown"

\* What the call does in the current state.  With no endpoint used yet it
\* returns the "not_used" record.  The monitor query with the temporary
\* object fails inside the try block (status "error"); building the result
\* reads endpoint.priority, which the temporary object does not have, and
\* the AttributeError leaves the function.
get_current_api_info ==
    LET ep == current_api.endpoint IN
    IF ep = NoEndpoint
    THEN [outcome |-> "returns", status |-> "not_used", name |-> "", url |-> ""]
    ELSE IF ep.priority = NoAttr
    THEN [outcome |-> "raises", status |-> "error", name |-> "", url |-> ""]
    ELSE [outcome |-> "returns", status |-> InfoStatus(ep.id), name |-> ep.name, url |-> ep.url]

\* C18: once a call has been accepted through the default endpoint,
\* get_current_api_info returns normally and reports the default endpoint
\* by its name and URL.
C18_InfoReportsDefaultEndpoint ==
    current_api.endpoint = TempEndpoint =>
        /\ get_current_api_info.outcome = "returns"
        /\ get_current_api_info.name = "Default"
        /\ get_current_api_info.url = DefaultUrl

(***************************************************************************)
(* utils.get_current_source_domain                                         *)
(***************************************************************************)
\* Value of the SiteConfiguration fallback.
ConfigDomain == "config"

\* source_domain of the first row of filter(is_active=True)
\* .order_by('-priority'), if there is one and its domain is not empty; else
\* the configured domain.
get_current_source_domain ==
    IF ActiveIds = {} THEN {ConfigDomain}
    ELSE {IF apiEndpoints[s[1]].source_domain # ""
          THEN apiEndpoints[s[1]].source_domain ELSE ConfigDomain : s \in OrderedActive}

\* C19: in sequential use, once a call has been accepted from candidate k
\* (a persisted endpoint of a registry that still lists the candidates of
\* the call, all of different priorities), the source domain reported to
\* consumers is candidate k's source_domain.
C19_DomainFollowsServingEndpoint ==
    \A c \in SeqCallers :
        (/\ Finished(c)
         /\ result[c].kind = "payload"
         /\ cands[c] \in get_api_endpoints
         /\ \A i, j \in DOMAIN cands[c] : i < j => cands[c][i].priority > cands[c][j].priority
         /\ IsPersisted(cands[c][result[c].pos]))
        => \A d \in get_current_source_domain :
               d = apiEndpoints[cands[c][result[c].pos].id].source_domain

\* C20: the first request of a call carries the caller's parameters as they
\* are, and every later request of the call carries the force-fresh flag in
\* addition.
C20_RetriesForceFresh ==
    \A c \in SeqCallers :
        \A k \in DOMAIN sent[c] : sent[c][k].force_fresh = (k > 1)

\* What the liveness contract calls healthy: a 2xx answer whose body parses
\* and carries the healthy marker.
ContractHealthy(r) ==
    /\ r.kind = "http"
    /\ r.status >= 200 /\ r.status < 300
    /\ r.body.shape # "unparsable"
    /\ r.body.marker

\* C21: the health check that ends leaves the monitor row it holds with the
\* status "up" exactly when the answer had a 2xx status and a parsed body
\* with the healthy marker; a 2xx answer with an unparsable or unmarked
\* body, a non-2xx status, a timeout and a connection error give another
\* status.
C21_HealthyNeedsMarker ==
    [][(probe.active /\ ~probe'.active) =>
          \A m \in apiMonitors' :
              m.pk = probe.pk => (m.status = "up" <=> ContractHealthy(probe'.answer))]_vars

\* The payload is of the type the page serves (an object for the home page,
\* a list for a listing page) and is not empty.
ServedBy(fn, pl) ==
    /\ pl.type = (IF fn = "index" THEN "dict" ELSE "list")
    /\ pl.size > 0

MonitorsHaveEndpoints ==
    \A m \in apiMonitors : m.endpoint \in EndpointIds /\ apiEndpoints[m.endpoint].exists

\* The step removes the row m from the monitor table.
Removed(m) == \A n \in apiMonitors' : n.pk # m.pk

\* The step deletes the endpoint row i.
EndpointDeleted(i) == apiEndpoints[i].exists /\ ~apiEndpoints'[i].exists

\* The step deletes every monitor row of an endpoint row it deletes.
CascadeOnDelete ==
    \A i \in EndpointIds :
        EndpointDeleted(i) => \A n \in apiMonitors' : n.endpoint # i

\* C23: every monitor row references an existing endpoint row; a step that
\* deletes an endpoint row deletes all of its monitor rows; and a monitor row
\* is removed by no step but the one that deletes its endpoint row.
C23_MonitorsGoOnlyWithEndpoint ==
    /\ [](MonitorsHaveEndpoints)
    /\ [][CascadeOnDelete]_vars
    /\ [][\A m \in apiMonitors : Removed(m) => EndpointDeleted(m.endpoint)]_vars

\* C23 as amended: as C23, but a monitor row is also removed by a deletion in
\* the admin site, a step that removes rows of the monitor table and changes
\* nothing else; the steps of orchestrator calls and health checks remove
\* none.
C23_MonitorsGoWithEndpointOrByAdmin ==
    /\ [](MonitorsHaveEndpoints)
    /\ [][CascadeOnDelete]_vars
    /\ [][\A m \in apiMonitors :
            Removed(m) =>
                \/ EndpointDeleted(m.endpoint)
                \/ (/\ apiMonitors' \subseteq apiMonitors
                    /\ UNCHANGED <<storeVars, cache, clientVars, callVars, probe, view, sweep, reader, saver>>)]_vars

\* A health check holds the monitor of an endpoint that has been deleted
\* since, and the row has gone with the endpoint while another endpoint
\* keeps its row.
C23_Witness ==
    /\ probe.active
    /\ ~apiEndpoints[probe.endpoint].exists
    /\ MonitorsOf(probe.endpoint, probe.path) = {}
    /\ \E m \in apiMonitors : apiEndpoints[m.endpoint].exists

\* C24: a step of the sweep marks an endpoint inactive only when probes of
\* that endpoint have failed repeatedly (MaxProbeFailures times), and it
\* changes nothing else in the endpoint table: no row appears or goes, no
\* row becomes active, and no field but is_active changes.
C24_SweepDeactivatesAfterRepeatedFailures ==
    [][sweep' # sweep =>
          \A i \in EndpointIds :
              /\ (apiEndpoints[i].is_active /\ ~apiEndpoints'[i].is_active)
                    => sweep'.failures[i] >= MaxProbeFailures
              /\ apiEndpoints'[i] = [apiEndpoints[i] EXCEPT !.is_active = apiEndpoints'[i].is_active]
              /\ apiEndpoints'[i].is_active => apiEndpoints[i].is_active]_vars

\* Statuses of a monitor row.
RowStatuses == {"up", "down", "error", "timeout", "unknown"}

\* C25: every row of the monitor table, whichever writer wrote it last, has
\* a status among up, down, error, timeout, unknown; a row "up" has no error
\* message; a row "timeout" or "down" has neither latency nor snippet.
C25_MonitorRowsWellFormed ==
    \A m \in apiMonitors :
        /\ m.status \in RowStatuses
        /\ m.status = "up" => ~m.error_message
        /\ m.status \in {"timeout", "down"} => (~m.response_time /\ ~m.response_data)

\* The orchestrator has written "timeout" over a row, after a health check
\* that got a 2xx answer.
C25_Witness ==
    /\ ~probe.active
    /\ probe.answer.kind = "http" /\ probe.answer.status = 200
    /\ \E c \in SeqCallers :
          /\ pc[c] = "check" /\ idx[c] = 2
          /\ sent[c][Len(sent[c])].answer.kind = "timeout"
          /\ \E m \in MonitorsOf(cands[c][1].id, path[c]) : m.status = "timeout"
    /\ \A m \in apiMonitors : m.status # "unknown"

\* The monitor row of the candidate for the path of the call holds a failure.
LastOutcomeFailed(c, j) ==
    \E m \in MonitorsOf(cands[c][j].id, path[c]) : m.status \in {"down", "timeout", "error"}

\* C26: in sequential use the failure table is empty when the candidate loop
\* of a call starts, and a later call sends a request to every candidate it
\* gets to that failed before and is still active: a candidate the loop has
\* passed, whose recorded outcome is a failure, has received a request of
\* this call.
C26_NoFailureStateAcrossCalls ==
    /\ [][\A c \in SeqCallers :
            (pc[c] = "iter" /\ pc'[c] = "check") => failed_endpoints = EmptyFailed]_vars
    /\ [](\A c \in SeqCallers :
            \A j \in DOMAIN cands[c] :
                (/\ callsStarted > 1
                 /\ j < idx[c]
                 /\ IsPersisted(cands[c][j])
                 /\ apiEndpoints[cands[c][j].id].is_active
                 /\ LastOutcomeFailed(c, j))
                => j \in Dispatched(c))

(***************************************************************************)
(* current_api["error_log"]                                                *)
(***************************************************************************)
\* Logs a client holds after earlier calls whose dispatches to "a" and "b"
\* failed in turn.
EarlierLogs ==
    {[k \in 1..n |-> [endpoint |-> IF k % 2 = 1 THEN "a" ELSE "b"]] :
        n \in (ErrorLogKept - 1)..(ErrorLogKept + 1)}

\* A client that has made calls before: the log is filled, no call is in
\* flight.  refresh_endpoints rebuilds self.endpoints and the failure table
\* when the next call starts, and the monitor rows of the earlier calls have
\* been removed.
InitLog ==
    /\ apiEndpoints \in Registries
    /\ nextId = MaxEndpoints + 1
    /\ apiMonitors = {}
    /\ cache = EmptyCache
    /\ self_endpoints \in get_api_endpoints
    /\ failed_endpoints = EmptyFailed
    /\ \E log \in EarlierLogs : current_api = [NewCurrentApi EXCEPT !.error_log = log]
    /\ callsStarted = 0
    /\ pc = [c \in Callers |-> "idle"]
    /\ path = [c \in Callers |-> "home"]
    /\ activeAtStart = [c \in Callers |-> {}]
    /\ cands = [c \in Callers |-> <<>>]
    /\ idx = [c \in Callers |-> 0]
    /\ sent = [c \in Callers |-> <<>>]
    /\ pending = [c \in Callers |-> "none"]
    /\ result = [c \in Callers |-> NoResult]
    /\ probe = NoProbe
    /\ view = NoView
    /\ sweep = NoSweep
    /\ reader = NoReader
    /\ saver = "idle"

NextLog == SetActive \/ TimePasses \/ \E c \in SeqCallers : CallStep(c, UpOrDown)
SpecLog == InitLog /\ [][NextLog]_vars

\* Names of the candidates whose dispatch failed in the call in flight, in
\* the order of the dispatches.
RECURSIVE FailedNames(_, _)
FailedNames(c, n) ==
    IF n = 0 THEN <<>>
    ELSE LET d == sent[c][n] IN
         IF ExceptionKind(d.answer) = "none" THEN FailedNames(c, n - 1)
         ELSE Append(FailedNames(c, n - 1), cands[c][d.pos].name)

\* Between two candidates and at the end of a call, the log ends with one
\* entry for each failed dispatch of the call, in the order of the dispatches.
LogEndsWithFailures(c) ==
    pc[c] \in {"check", "done"} =>
        LET names == FailedNames(c, Len(sent[c]))
            log == current_api.error_log IN
        /\ Len(log) >= Len(names)
        /\ \A k \in 1..Len(names) :
              log[Len(log) - Len(names) + k].endpoint = names[k]

\* A step that puts one entry at the end of the log and drops the oldest
\* entry of a log that holds 10.
LogShiftsByOne ==
    LET log == current_api.error_log
        new == current_api'.error_log
        drop == IF Len(log) >= 10 THEN Len(log) - 9 ELSE 0 IN
    /\ Len(new) = Len(log) - drop + 1
    /\ \A k \in 1..(Len(new) - 1) : new[k] = log[k + drop]

\* C30: current_api.error_log never holds more than 10 entries; in sequential
\* use every failed dispatch puts exactly one entry at the end of the log
\* and the oldest entry leaves a full log, so that the log is the most recent
\* failed dispatches in the order they happened, and every other step, the
\* acceptance of a response included, leaves the log as it is.
C30_ErrorLogKeepsLastTen ==
    /\ [](Len(current_api.error_log) <= 10)
    /\ [](\A c \in SeqCallers : LogEndsWithFailures(c))
    /\ [][\A c \in SeqCallers :
            IF pc[c] = "record_failure" /\ pc'[c] # "record_failure"
            THEN /\ LogShiftsByOne
                 /\ current_api'.error_log[Len(current_api'.error_log)].endpoint
                        = cands[c][idx[c]].name
            ELSE current_api'.error_log = current_api.error_log]_vars

\* A call whose first dispatch failed and whose second was accepted has put
\* one entry at the end of a full log: the oldest entry ("a") is gone, and
\* the acceptance has left the log alone.
C30_Witness ==
    /\ pc[1] = "done" /\ result[1].kind = "payload" /\ result[1].pos = 2
    /\ Len(current_api.error_log) = 10
    /\ current_api.error_log[1].endpoint = "b"
    /\ current_api.error_log[10].endpoint = cands[1][1].name

(***************************************************************************)
(* FallbackAPIClient.post                                                  *)
(***************************************************************************)
\* The statements of post's own body; refresh_endpoints,
\* _should_retry_endpoint, _mark_endpoint_success and _mark_endpoint_failed
\* are the methods get calls.  The verb and the body of the request (json=data
\* in place of params=params) are not part of the state.

\* for api_endpoint in self.endpoints (line 363)
PostBeginLoop(c) ==
    /\ pc[c] = "iter"
    /\ cands' = [cands EXCEPT ![c] = self_endpoints]
    /\ idx' = [idx EXCEPT ![c] = 1]
    /\ pc' = [pc EXCEPT ![c] = "check"]
    /\ UNCHANGED <<storeVars, apiMonitors, cache, clientVars,
                   callsStarted, path, activeAtStart, sent, pending, result>>
    /\ UNCHANGED <<probe, view, sweep, reader, saver>>

\* Loop head, the call of _should_retry_endpoint (line 365) and, when the
\* list is exhausted, raise Exception("All API endpoints failed...")
PostLoopHead(c) ==
    /\ pc[c] = "check"
    /\ IF idx[c] > Len(cands[c])
       THEN /\ result' = [result EXCEPT ![c] = [kind |-> "all_failed", pos |-> 0, body |-> Unparsable]]
            /\ pc' = [pc EXCEPT ![c] = "done"]
       ELSE /\ pc' = [pc EXCEPT ![c] =
                 IF failed_endpoints[cands[c][idx[c]].url].present THEN "lookup" ELSE "request"]
            /\ UNCHANGED result
    /\ UNCHANGED <<storeVars, apiMonitors, cache, clientVars,
                   callsStarted, path, activeAtStart, cands, idx, sent, pending>>
    /\ UNCHANGED <<probe, view, sweep, reader, saver>>

\* tried_endpoints.append(...); session.post(url, json=data, ...);
\* _handle_response(response)
PostDispatch(c, answers) ==
    /\ pc[c] = "request"
    /\ \E r \in answers :
       /\ sent' = [sent EXCEPT ![c] =
             Append(@, [pos |-> idx[c], force_fresh |-> FALSE, answer |-> r])]
       /\ failed_endpoints' = Elapse(failed_endpoints, Duration(r))
       /\ pending' = [pending EXCEPT ![c] = ExceptionKind(r)]
       /\ pc' = [pc EXCEPT ![c] =
             IF ExceptionKind(r) = "none" THEN "mark_success" ELSE "mark_failed"]
    /\ UNCHANGED <<storeVars, apiMonitors, cache, self_endpoints, current_api,
                   callsStarted, path, activeAtStart, cands, idx, result>>
    /\ UNCHANGED <<probe, view, sweep, reader, saver>>

\* _update_api_monitor(..., "up", ...); self.current_api = {...}; return result
PostAccept(c) ==
    /\ pc[c] = "accepted"
    /\ LET ep == cands[c][idx[c]]
           b == sent[c][Len(sent[c])].answer.body IN
       /\ apiMonitors' = UpdateApiMonitor(apiMonitors, ep, path[c], "up", TRUE, FALSE, Truthy(b))
       /\ current_api' = [endpoint |-> ep,
                           success_count |-> current_api.success_count + 1,
                           error_log |-> current_api.error_log]
       /\ result' = [result EXCEPT ![c] = [kind |-> "payload", pos |-> idx[c], body |-> b]]
    /\ pc' = [pc EXCEPT ![c] = "done"]
    /\ UNCHANGED <<storeVars, cache, self_endpoints, failed_endpoints,
                   callsStarted, path, activeAtStart, cands, idx, sent, pending>>
    /\ UNCHANGED <<probe, view, sweep, reader, saver>>

\* An except clause that leaves out the monitor write.
PostRecordFailureSkipsMonitor(c) ==
    /\ pc[c] = "record_failure"
    /\ current_api' = [current_api EXCEPT !.error_log =
          LastEntries(@, ErrorLogKept) \o <<ErrorEntry(cands[c][idx[c]], pending[c])>>]
    /\ pending' = [pending EXCEPT ![c] = "none"]
    /\ idx' = [idx EXCEPT ![c] = @ + 1]
    /\ pc' = [pc EXCEPT ![c] = "check"]
    /\ UNCHANGED <<storeVars, apiMonitors, cache, self_endpoints, failed_endpoints,
                   callsStarted, path, activeAtStart, cands, sent, result>>
    /\ UNCHANGED <<probe, view, sweep, reader, saver>>

\* The except clauses of post (lines 408-451): _update_api_monitor(...,
\* status, None, str(e)); the error entry is put at the end of
\* current_api["error_log"][-9:]; last_exception = e.
PostRecordFailure(c) ==
    /\ pc[c] = "record_failure"
    /\ apiMonitors' = UpdateApiMonitor(apiMonitors, cands[c][idx[c]], path[c],
                                       FailureStatus(pending[c]), FALSE, TRUE, FALSE)
    /\ current_api' = [current_api EXCEPT !.error_log =
          LastEntries(@, ErrorLogKept) \o <<ErrorEntry(cands[c][idx[c]], pending[c])>>]
    /\ pending' = [pending EXCEPT ![c] = "none"]
    /\ idx' = [idx EXCEPT ![c] = @ + 1]
    /\ pc' = [pc EXCEPT ![c] = "check"]
    /\ UNCHANGED <<storeVars, cache, self_endpoints, failed_endpoints,
                   callsStarted, path, activeAtStart, cands, sent, result>>
    /\ UNCHANGED <<probe, view, sweep, reader, saver>>

PostCallStep(c, answers) ==
    \/ Start(c) \/ ResetFailed(c) \/ PostBeginLoop(c) \/ PostLoopHead(c) \/ Lookup(c)
    \/ PostDispatch(c, answers) \/ MarkSuccessTest(c) \/ MarkSuccessDel(c) \/ PostAccept(c)
    \/ MarkFailedTest(c) \/ MarkFailedGet(c) \/ PostRecordFailure(c) \/ Return(c)

\* One caller that makes get and post calls.
NextVerbs ==
    \/ SetActive
    \/ TimePasses
    \/ \E c \in SeqCallers : CallStep(c, StatusAnswers)
    \/ \E c \in SeqCallers : PostCallStep(c, StatusAnswers)
SpecVerbs == InitConc /\ [][NextVerbs]_vars

\* The steps of get's own body and of post's own body.
GetBody(c) ==
    \/ BeginLoop(c) \/ LoopHead(c) \/ Dispatch(c, StatusAnswers)
    \/ Accept(c) \/ RecordFailure(c)
PostBody(c) ==
    \/ PostBeginLoop(c) \/ PostLoopHead(c) \/ PostDispatch(c, StatusAnswers)
    \/ PostAccept(c) \/ PostRecordFailure(c)

\* C27: post follows the fallback state machine of get: wherever a call
\* stands, with the same candidates and the same answer of the upstream, a
\* step of post and a step of get dispatch to the same candidate, write the
\* same monitor row, change current_api and the failure table alike and end
\* with the same payload or the same terminal error.
C27_PostFollowsGet ==
    [][\A c \in SeqCallers : GetBody(c) <=> PostBody(c)]_vars

\* A call has failed on its first candidate and been served by its second:
\* the monitor rows, current_api, the log and the failure table all carry
\* what the steps above have written.
C27_Witness ==
    /\ pc[1] = "done" /\ result[1].kind = "payload" /\ result[1].pos = 2
    /\ failed_endpoints[cands[1][1].url].present
    /\ current_api.endpoint = cands[1][2]
    /\ Len(current_api.error_log) = 1
    /\ \E m \in apiMonitors : m.endpoint = cands[1][1].id /\ m.status = "timeout"
    /\ \E m \in apiMonitors : m.endpoint = cands[1][2].id /\ m.status = "up"

(***************************************************************************)
(* get_active_endpoints() alongside save(), statement by statement         *)
(***************************************************************************)
\* cached_endpoints = cache.get("api_endpoints"): a hit is returned at once.
ReaderCacheGet ==
    /\ reader.phase = "idle"
    /\ reader' = [phase |-> IF cache["api_endpoints"].set THEN "idle" ELSE "missed",
                  list |-> <<>>]
    /\ UNCHANGED <<storeVars, apiMonitors, cache, clientVars, callVars,
                   probe, view, sweep, saver>>

\* endpoints = list(cls.objects.filter(is_active=True).order_by('-priority'))
ReaderQuery ==
    /\ reader.phase = "missed"
    /\ \E s \in OrderedActive : reader' = [phase |-> "read", list |-> s]
    /\ UNCHANGED <<storeVars, apiMonitors, cache, clientVars, callVars,
                   probe, view, sweep, saver>>

\* cache.set("api_endpoints", endpoints, 3600); return endpoints
ReaderCacheSet ==
    /\ reader.phase = "read"
    /\ cache' = [cache EXCEPT !["api_endpoints"] = [set |-> TRUE, val |-> reader.list]]
    /\ reader' = NoReader
    /\ UNCHANGED <<storeVars, apiMonitors, clientVars, callVars,
                   probe, view, sweep, saver>>

\* endpoint.is_active = b; endpoint.save(): super().save(*args, **kwargs)
SaveWrite ==
    /\ saver = "idle"
    /\ \E i \in EndpointIds :
          /\ apiEndpoints[i].exists
          /\ apiEndpoints' = [apiEndpoints EXCEPT ![i].is_active = ~@]
    /\ saver' = "written"
    /\ UNCHANGED <<nextId, apiMonitors, cache, clientVars, callVars,
                   probe, view, sweep, reader>>

\* save(), the two cache.delete calls
SaveCacheDelete ==
    /\ saver = "written"
    /\ cache' = SaveInvalidate(cache)
    /\ saver' = "idle"
    /\ UNCHANGED <<storeVars, apiMonitors, clientVars, callVars,
                   probe, view, sweep, reader>>

NextRegistry ==
    ReaderCacheGet \/ ReaderQuery \/ ReaderCacheSet \/ SaveWrite \/ SaveCacheDelete
SpecRegistry == InitConc /\ [][NextRegistry]_vars

\* C28: once a get_active_endpoints() call and an endpoint save that ran
\* side by side have both finished, get_active_endpoints() returns the
\* endpoints that are active in the table after the save, not a list read
\* before it.
C28_NoStaleListAfterSave ==
    (reader.phase = "idle" /\ saver = "idle") =>
        \A l \in get_active_endpoints :
            {l[i] : i \in DOMAIN l} = ActiveIds /\ Len(l) = Cardinality(ActiveIds)

\* C29: when calls overlap, the bookkeeping on the shared failure table
\* changes no call's outcome: no KeyError leaves get/post, and a candidate
\* whose 2xx response was received and parsed is not handled as a failure.
C29_BookkeepingNeverChangesOutcome ==
    \A c \in Callers :
        /\ result[c].kind # "key_error"
        /\ (pc[c] \in {"mark_failed", "failed_get", "record_failure"} =>
                ExceptionKind(sent[c][Len(sent[c])].answer) # "none")

====
